---------------------------- MODULE Spec2Model ----------------------------
(***************************************************************************)
(* Crawl orchestration of the journal scrapers:                            *)
(*   rpmgf.py / rpmgf_improved.py  (class RPMGFScraper)                    *)
(*   acta.py                       (class AMPScraper)                      *)
(*   acta_medica_optimized.py      (main)                                  *)
(*                                                                         *)
(* SpecReq  : one call of _make_request (retry loop, sleeps, GETs) of      *)
(*            either scraper, the server's answer to every GET chosen      *)
(*            nondeterministically.                                        *)
(* SpecPag  : the discovery of the listing pages from the first listing    *)
(*            page (RPMGFScraper.get_magazine_links with                   *)
(*            _detect_pagination, AMPScraper.get_archive_pages).           *)
(* SpecAmp  : one call of AMPScraper.scrape_all_articles: listing pages,   *)
(*            issue tasks in the thread pool, article fetches in the       *)
(*            coordinating thread.                                         *)
(* SpecRpm  : one call of RPMGFScraper.scrape_all_articles: listing pages  *)
(*            and magazines in sequence, article tasks in the thread pool, *)
(*            then main; a KeyboardInterrupt may arrive in the pool phase. *)
(* SpecRpmFair : SpecRpm for rpmgf_improved.py under fair scheduling.      *)
(* SpecCrawl: the runs of SpecAmp and of SpecRpm together.                 *)
(* SpecOpt  : one run of main of acta_medica_optimized.py.                 *)
(***************************************************************************)
EXTENDS Integers, Sequences, FiniteSets, TLC

(***************************************************************************)
(* Bounds of the model and constants of the program.                       *)
(***************************************************************************)
\* largest `retries` argument / `retry_attempts` setting explored
MaxAttempts == 5
\* largest configured self.delay explored (seconds)
MaxDelay == 2
\* most listing pages of one walk whose fetch the server lets fail
MaxFailedPages == 1
\* default of the `retries` argument of RPMGFScraper._make_request
DefaultRetries == 3
\* default of the `retry_count` argument of AMPScraper._make_request
DefaultRetryCount == 3
\* factor of the backoff wait of AMPScraper._make_request
BackoffUnit == 2

(***************************************************************************)
(* What one GET can end in: an HTTP status, or a requests exception.       *)
(***************************************************************************)
Statuses == {200, 204, 404, 500}
Exceptions == {"Timeout", "ConnectionError"}
Outcomes == [kind : {"status"}, code : Statuses, exc : {"-"}]
              \cup [kind : {"exc"}, code : {0}, exc : Exceptions]

Scrapers == {"rpmgf", "acta"}

VARIABLES
  impl,         \* which scraper's _make_request runs: "rpmgf" | "acta"
  retries,      \* rpmgf: the `retries` argument; acta: self.retry_attempts
  retry_count,  \* acta: the `retry_count` argument
  delay,        \* self.delay
  pc,           \* position of the call: "start" | "sleep" | "get" | "backoff" | "done"
  attempt,      \* the loop variable `attempt`
  trace,        \* what the calling thread did so far: sleeps and GETs, in order
  result,       \* "pending" | "response" | "None"
  \* ---- discovery of the listing pages (SpecPag)
  page,         \* the parsed first listing page: a sequence of nodes
  shown,        \* the 'start-end of total' the site prints on it, if any
  nav,          \* the navigation link the site puts on it: a name of NavLabels
  pstage,       \* "first" | "detect" | "walk" | "parse" | "returned", or
                \* "no_first_page": returned [] because the first fetch failed
  pagination_info,    \* rpmgf: what _detect_pagination returned
  total_pages,        \* rpmgf: total_pages of get_magazine_links
  page_num,           \* rpmgf: the loop variable of the walk
  walked,             \* rpmgf: the page numbers the walk requested, in order
  requested,          \* every URL handed to _make_request, in order
  all_magazine_links, \* rpmgf: the container links collected so far
  pages_failed,       \* how many listing pages of the walk the server failed
  archive_pages,      \* acta: the list get_archive_pages returns
  \* ---- the whole crawl (SpecAmp, SpecRpm, SpecOpt)
  site,          \* the remote site: the listing pages after the first one
  max_workers,   \* self.max_workers, the size of the thread pool
  max_issues,    \* acta: the max_issues argument: None, or an integer n
  cstage,        \* where the coordinating thread is
  pos,           \* the sequential loop's position in the list it walks
  discovered,    \* every container link found, before any de-duplication
  all_issue_links, \* acta: all_issue_links of get_all_issue_links
  issue_links,   \* the container URLs the container phase works on
  article_links, \* rpmgf: the leaf URLs collected by get_article_links
  skipped,       \* rpmgf: positions of the magazines get_article_links skipped
  tasks,         \* the futures of the pool: [url, st, res] in submit order
  consumed,      \* the futures as_completed has handed to the coordinator
  todo,          \* acta: the article_info entries of the issue being processed
  leaf_busy,     \* acta: the coordinator is inside extract_article_data's fetch
  all_articles   \* the records collected (acta: all_articles_data)

reqVars == <<retries, retry_count, delay, pc, attempt, trace, result>>
pagVars == <<page, shown, nav, pstage, pagination_info, total_pages, page_num,
             walked, requested, all_magazine_links, pages_failed,
             archive_pages>>

crawlVars == <<site, max_workers, max_issues, cstage, pos, discovered,
               all_issue_links, issue_links, article_links, skipped, tasks,
               consumed, todo, leaf_busy, all_articles>>

vars == <<impl, reqVars, pagVars, crawlVars>>

\* what an action of one part leaves alone
notReq == <<pagVars, crawlVars>>
notPag == <<reqVars, crawlVars>>

SleepEv(secs) == [op |-> "sleep", secs |-> secs, kind |-> "-", code |-> 0]
GetEv(o) == [op |-> "get", secs |-> 0, kind |-> o.kind, code |-> o.code]

(***************************************************************************)
(* RPMGFScraper._make_request (rpmgf.py 63-76, rpmgf_improved.py 78-111)   *)
(***************************************************************************)
\* variant: only a 5xx status raises
RaisesForStatusNo4xx(code) == code >= 500 /\ code < 600

\* response.raise_for_status(): HTTPError for a 4xx or 5xx status
RaisesForStatus(code) == code >= 400 /\ code < 600

\* variant: gives up one attempt early
RLastAttemptEarly(a, r) == a = r - 2

\* `if attempt == retries - 1: return None`
RLastAttempt(a, r) == a = r - 1

\* for attempt in range(retries): is there an iteration for value a
RInRange(a, r) == a >= 0 /\ a < r

RStart ==
  /\ impl = "rpmgf"
  /\ pc = "start"
  /\ attempt' = 0
  /\ IF RInRange(0, retries)
       THEN pc' = "sleep" /\ result' = result
       ELSE pc' = "done" /\ result' = "None"
  /\ UNCHANGED <<impl, retries, retry_count, delay, trace, notReq>>

\* variant: no sleep before the first attempt of a call
RSleepSkipFirst ==
  /\ impl = "rpmgf"
  /\ pc = "sleep"
  /\ trace' = IF attempt = 0 THEN trace ELSE Append(trace, SleepEv(delay))
  /\ pc' = "get"
  /\ UNCHANGED <<impl, retries, retry_count, delay, attempt, result, notReq>>

\* time.sleep(self.delay), first statement of every iteration
RSleep ==
  /\ impl = "rpmgf"
  /\ pc = "sleep"
  /\ trace' = Append(trace, SleepEv(delay))
  /\ pc' = "get"
  /\ UNCHANGED <<impl, retries, retry_count, delay, attempt, result, notReq>>

\* session.get, raise_for_status, return response / except RequestException
RGet(o) ==
  /\ impl = "rpmgf"
  /\ pc = "get"
  /\ trace' = Append(trace, GetEv(o))
  /\ IF o.kind = "status" /\ ~RaisesForStatus(o.code)
       THEN pc' = "done" /\ result' = "response" /\ attempt' = attempt
       ELSE IF RLastAttempt(attempt, retries)
              THEN pc' = "done" /\ result' = "None" /\ attempt' = attempt
              ELSE IF RInRange(attempt + 1, retries)
                     THEN pc' = "sleep" /\ result' = result
                          /\ attempt' = attempt + 1
                     ELSE pc' = "done" /\ result' = "None"
                          /\ attempt' = attempt
  /\ UNCHANGED <<impl, retries, retry_count, delay, notReq>>

(***************************************************************************)
(* AMPScraper._make_request (acta.py 112-150)                              *)
(***************************************************************************)
\* variant: one iteration too many
AInRangeOneMore(a, rc, k) == a >= rc /\ a < k + 2

\* for attempt in range(retry_count, self.retry_attempts + 1)
AInRange(a, rc, k) == a >= rc /\ a < k + 1

\* `if attempt < self.retry_attempts:` guards the backoff sleep
AShouldWait(a, k) == a < k

\* wait_time = (self.retry_attempts - attempt) * 2
AWaitTime(a, k) == (k - a) * BackoffUnit

AStart ==
  /\ impl = "acta"
  /\ pc = "start"
  /\ attempt' = retry_count
  /\ IF AInRange(retry_count, retry_count, retries)
       THEN pc' = "get" /\ result' = result
       ELSE pc' = "done" /\ result' = "None"
  /\ UNCHANGED <<impl, retries, retry_count, delay, trace, notReq>>

\* session.get and the status dispatch / except RequestException
AGet(o) ==
  /\ impl = "acta"
  /\ pc = "get"
  /\ trace' = Append(trace, GetEv(o))
  /\ IF o.kind = "status" /\ o.code = 200
       THEN pc' = "done" /\ result' = "response" /\ attempt' = attempt
       ELSE IF o.kind = "status" /\ o.code = 404
              THEN pc' = "done" /\ result' = "None" /\ attempt' = attempt
              ELSE IF AShouldWait(attempt, retries)
                     THEN pc' = "backoff" /\ result' = result
                          /\ attempt' = attempt
                     ELSE IF AInRange(attempt + 1, retry_count, retries)
                            THEN pc' = "get" /\ result' = result
                                 /\ attempt' = attempt + 1
                            ELSE pc' = "done" /\ result' = "None"
                                 /\ attempt' = attempt
  /\ UNCHANGED <<impl, retries, retry_count, delay, notReq>>

\* time.sleep(wait_time), then the next iteration of the loop
ABackoff ==
  /\ impl = "acta"
  /\ pc = "backoff"
  /\ trace' = Append(trace, SleepEv(AWaitTime(attempt, retries)))
  /\ IF AInRange(attempt + 1, retry_count, retries)
       THEN pc' = "get" /\ result' = result /\ attempt' = attempt + 1
       ELSE pc' = "done" /\ result' = "None" /\ attempt' = attempt
  /\ UNCHANGED <<impl, retries, retry_count, delay, notReq>>

\* the discovery variables while only a request runs
PagIdle ==
  /\ page = <<>> /\ shown = [present |-> FALSE, start |-> 0, end |-> 0, total |-> 0]
  /\ nav = "none" /\ pstage = "idle" /\ pagination_info = [kind |-> "None"]
  /\ total_pages = 0 /\ page_num = 0 /\ walked = <<>> /\ requested = <<>>
  /\ all_magazine_links = <<>> /\ pages_failed = 0 /\ archive_pages = <<>>

\* the default of the max_issues argument: None
NoMaxIssues == [given |-> FALSE, n |-> 0]

CrawlIdle ==
  /\ site = <<>> /\ max_workers = 0 /\ max_issues = NoMaxIssues /\ cstage = "idle"
  /\ pos = 0 /\ discovered = <<>> /\ all_issue_links = <<>>
  /\ issue_links = <<>>
  /\ article_links = <<>> /\ skipped = {} /\ tasks = <<>> /\ consumed = {}
  /\ todo = <<>>
  /\ leaf_busy = FALSE /\ all_articles = <<>>

(***************************************************************************)
(* SpecReq: one call, for every setting of the scraper and every server.   *)
(***************************************************************************)
ReqInit ==
  /\ impl \in Scrapers
  /\ retries \in 1..MaxAttempts
  /\ retry_count \in IF impl = "acta" THEN 1..DefaultRetryCount ELSE {0}
  /\ delay \in IF impl = "rpmgf" THEN 1..MaxDelay ELSE {1}
  /\ pc = "start"
  /\ attempt = 0
  /\ trace = <<>>
  /\ result = "pending"
  /\ PagIdle
  /\ CrawlIdle

ReqNext ==
  \/ RStart
  \/ RSleep
  \/ \E o \in Outcomes : RGet(o)
  \/ AStart
  \/ \E o \in Outcomes : AGet(o)
  \/ ABackoff

SpecReq == ReqInit /\ [][ReqNext]_vars

(***************************************************************************)
(* Text.  A string is a sequence of one-character strings, so that the     *)
(* regular expression, split(), strip() and int() of the code are computed *)
(* on characters.                                                          *)
(***************************************************************************)
Digits == <<"0", "1", "2", "3", "4", "5", "6", "7", "8", "9">>
IsDigit(c) == \E d \in 1..10 : Digits[d] = c
DigitVal(c) == (CHOOSE d \in 1..10 : Digits[d] = c) - 1
\* \s of re and the whitespace of str.strip / str.split
IsSpace(c) == c \in {" ", "\n", "\t"}

UpperCase == <<"N", "E", "X", "T", "S", "G", "U", "I", "P", "R", "M", "O", "H">>
LowerCase == <<"n", "e", "x", "t", "s", "g", "u", "i", "p", "r", "m", "o", "h">>
\* the case folding of re.I
Lower(c) ==
  IF \E k \in DOMAIN UpperCase : UpperCase[k] = c
    THEN LowerCase[CHOOSE k \in DOMAIN UpperCase : UpperCase[k] = c]
    ELSE c

RECURSIVE DigitRun(_, _)
\* length of the longest run of digits of t that starts at i
DigitRun(t, i) ==
  IF i <= Len(t) /\ IsDigit(t[i]) THEN 1 + DigitRun(t, i + 1) ELSE 0

RECURSIVE SpaceRun(_, _)
SpaceRun(t, i) ==
  IF i <= Len(t) /\ IsSpace(t[i]) THEN 1 + SpaceRun(t, i + 1) ELSE 0

RECURSIVE NonSpaceRun(_, _)
NonSpaceRun(t, i) ==
  IF i <= Len(t) /\ ~IsSpace(t[i]) THEN 1 + NonSpaceRun(t, i + 1) ELSE 0

RECURSIVE DigitsValue(_)
\* int() of a string of digits
DigitsValue(t) ==
  IF t = <<>> THEN 0
  ELSE 10 * DigitsValue(SubSeq(t, 1, Len(t) - 1)) + DigitVal(t[Len(t)])

RECURSIVE Str(_)
\* str() of a natural number
Str(n) ==
  IF n < 10 THEN <<Digits[n + 1]>>
  ELSE Str(n \div 10) \o <<Digits[(n % 10) + 1]>>

\* does w occur in t at position i
OccursAt(t, w, i) ==
  /\ i >= 1 /\ i + Len(w) - 1 <= Len(t)
  /\ \A k \in 1..Len(w) : t[i + k - 1] = w[k]

\* str.find: the first position >= from where w occurs in t, 0 when none
FindFrom(t, w, from) ==
  LET hits == {i \in from..Len(t) : OccursAt(t, w, i)}
  IN  IF hits = {} THEN 0 ELSE CHOOSE i \in hits : \A j \in hits : i <= j

\* re.search(word, t, re.I) for a literal word
SearchIgnoreCase(t, w) ==
  \E i \in 1..Len(t) :
    /\ i + Len(w) - 1 <= Len(t)
    /\ \A k \in 1..Len(w) : Lower(t[i + k - 1]) = Lower(w[k])

\* Python's // : the floor of a / b, b # 0
PyFloorDiv(a, b) == IF b > 0 THEN a \div b ELSE (-a) \div (-b)

(***************************************************************************)
(* Documents.  A parsed page is the sequence of its nodes in document      *)
(* order: text nodes and <a> elements (their string, class and href).      *)
(***************************************************************************)
TextNode(t) == [tag |-> "text", s |-> t, class |-> "", href |-> <<>>]
ANode(t, c, h) == [tag |-> "a", s |-> t, class |-> c, href |-> h]

RECURSIVE GetText(_)
\* soup.get_text(): the strings of all nodes, concatenated
GetText(doc) ==
  IF doc = <<>> THEN <<>> ELSE Head(doc).s \o GetText(Tail(doc))

(***************************************************************************)
(* RPMGFScraper._detect_pagination (rpmgf_improved.py 194-246)             *)
(***************************************************************************)
NoMatch == [ok |-> FALSE, start |-> 0, end |-> 0, total |-> 0]

\* re.match of (\d+)-(\d+)\s+of\s+(\d+) at position i of t
MatchAt(t, i) ==
  LET d1 == DigitRun(t, i)
      j  == i + d1
      d2 == DigitRun(t, j + 1)
      k  == j + 1 + d2
      s1 == SpaceRun(t, k)
      m  == k + s1
      s2 == SpaceRun(t, m + 2)
      n  == m + 2 + s2
      d3 == DigitRun(t, n)
  IN  IF /\ d1 >= 1 /\ j <= Len(t) /\ t[j] = "-"
         /\ d2 >= 1 /\ s1 >= 1
         /\ OccursAt(t, <<"o", "f">>, m)
         /\ s2 >= 1 /\ d3 >= 1
        THEN [ok |-> TRUE,
              start |-> DigitsValue(SubSeq(t, i, j - 1)),
              end |-> DigitsValue(SubSeq(t, j + 1, k - 1)),
              total |-> DigitsValue(SubSeq(t, n, n + d3 - 1))]
        ELSE NoMatch

\* re.search(r'(\d+)-(\d+)\s+of\s+(\d+)', t): the leftmost match
PaginationMatch(t) ==
  LET hits == {i \in 1..Len(t) : MatchAt(t, i).ok}
  IN  IF hits = {} THEN NoMatch
      ELSE MatchAt(t, CHOOSE i \in hits : \A j \in hits : i <= j)

\* variant: the range taken without its last issue
IssuesPerPageExclusive(start, end) == end - start

\* issues_per_page = end_issue - start_issue + 1
IssuesPerPage(start, end) == end - start + 1

\* variant: plain floor division
CeilingDivisionFloors(total, ipp) == PyFloorDiv(total, ipp)

\* total_pages = (total_issues + issues_per_page - 1) // issues_per_page
CeilingDivision(total, ipp) == PyFloorDiv(total + ipp - 1, ipp)

NextWords == << <<"p", "r", "ó", "x", "i", "m", "o">>,
                <<"n", "e", "x", "t">>,
                <<"S", "e", "g", "u", "i", "n", "t", "e">> >>

\* variant: any <a> element counts as the next-page link
HasNextLinkAnyAnchor(doc) == \E i \in DOMAIN doc : doc[i].tag = "a"

\* variant: the search without re.I
HasNextLinkCaseSensitive(doc) ==
  \E i \in DOMAIN doc :
    /\ doc[i].tag = "a"
    /\ \E w \in DOMAIN NextWords : FindFrom(doc[i].s, NextWords[w], 1) # 0

\* soup.find('a', string=re.compile(r'próximo|next|Seguinte', re.I))
HasNextLink(doc) ==
  \E i \in DOMAIN doc :
    /\ doc[i].tag = "a"
    /\ \E w \in DOMAIN NextWords : SearchIgnoreCase(doc[i].s, NextWords[w])

None == [kind |-> "None"]
\* total_issues, issues_per_page, total_pages of the 'Next' estimate
EstimatedIssues == 169
EstimatedPerPage == 50
EstimatedPages == 4

DetectPagination(doc) ==
  LET mt == PaginationMatch(GetText(doc))
      ipp == IssuesPerPage(mt.start, mt.end)
  IN  IF mt.ok
        THEN IF ipp = 0
               THEN None   \* ZeroDivisionError, caught by `except Exception`
               ELSE [kind |-> "dict", total_issues |-> mt.total,
                     issues_per_page |-> ipp,
                     total_pages |-> CeilingDivision(mt.total, ipp)]
        ELSE IF HasNextLink(doc)
               THEN [kind |-> "dict", total_issues |-> EstimatedIssues,
                     issues_per_page |-> EstimatedPerPage,
                     total_pages |-> EstimatedPages]
               ELSE None

(***************************************************************************)
(* RPMGFScraper.get_magazine_links (rpmgf_improved.py 113-192)             *)
(***************************************************************************)
\* page_url: base_url for page 1, f"{base_url}/{page_num}" otherwise
RPageUrl(n) == IF n = 1 THEN <<"archive">> ELSE <<"archive", "/", n>>

\* _extract_magazine_links_from_page: href of every <a class='title'>
ExtractMagazineLinks(doc) ==
  LET hit(i) == doc[i].tag = "a" /\ doc[i].class = "title" /\ doc[i].href # <<>>
      idx == {i \in DOMAIN doc : hit(i)}
      RECURSIVE take(_)
      take(i) == IF i > Len(doc) THEN <<>>
                 ELSE IF i \in idx THEN <<doc[i].href>> \o take(i + 1)
                      ELSE take(i + 1)
  IN  take(1)

\* the issue links the site lists on listing page n (two per page)
IssueHref(k) == <<"issue", "/", k>>
IssueAnchors(n) ==
  << ANode(<<"V", "a">>, "title", IssueHref(2 * n - 1)),
     ANode(<<"V", "b">>, "title", IssueHref(2 * n)) >>

\* `if not pagination_info: total_pages = 1 else pagination_info['total_pages']`
TotalPagesOf(info) == IF info = None THEN 1 ELSE info.total_pages

\* variant: the discovery goes on without the first page
AfterFirstPageGoesOn(ok, next) == next

\* `if not response: return []` after the request of the first listing page
AfterFirstPage(ok, next) == IF ok THEN next ELSE "no_first_page"

\* first_page_response = self._make_request(self.base_url)
MFirst(ok) ==
  /\ impl = "rpmgf"
  /\ pstage = "first"
  /\ requested' = Append(requested, RPageUrl(1))
  /\ pstage' = AfterFirstPage(ok, "detect")
  /\ UNCHANGED <<impl, page, shown, nav, pagination_info, total_pages, page_num,
                 walked, all_magazine_links, pages_failed, archive_pages,
                 notPag>>

\* pagination_info = self._detect_pagination(first_page_soup); total_pages
MDetect ==
  /\ impl = "rpmgf"
  /\ pstage = "detect"
  /\ LET info == DetectPagination(page)
     IN  /\ pagination_info' = info
         /\ total_pages' = TotalPagesOf(info)
         /\ pstage' = IF 1 < TotalPagesOf(info) + 1 THEN "walk"
                      ELSE "returned"
  /\ page_num' = 1
  /\ UNCHANGED <<impl, page, shown, nav, walked, requested, all_magazine_links,
                 pages_failed, archive_pages, notPag>>

\* one iteration of `for page_num in range(1, total_pages + 1)`
MWalk(ok) ==
  /\ impl = "rpmgf"
  /\ pstage = "walk"
  /\ ok \/ pages_failed < MaxFailedPages
  /\ pages_failed' = IF ok THEN pages_failed ELSE pages_failed + 1
  /\ requested' = Append(requested, RPageUrl(page_num))
  /\ walked' = Append(walked, page_num)
  /\ all_magazine_links' =
       IF ok
         THEN all_magazine_links \o
                ExtractMagazineLinks(IF page_num = 1 THEN page
                                     ELSE IssueAnchors(page_num))
         ELSE all_magazine_links
  /\ page_num' = page_num + 1
  /\ pstage' = IF page_num + 1 < total_pages + 1 THEN "walk" ELSE "returned"
  /\ UNCHANGED <<impl, page, shown, nav, pagination_info, total_pages,
                 archive_pages, notPag>>

(***************************************************************************)
(* AMPScraper.get_archive_pages (acta.py 152-196)                          *)
(***************************************************************************)
Of == <<"o", "f">>
AmpIssuesPerPage == 25
AmpDefaultPages == 15

\* pagination_text.split('of')[1]: between the first 'of' and the next one
AfterFirstOf(t) ==
  LET a == FindFrom(t, Of, 1)
      b == FindFrom(t, Of, a + 2)
  IN  SubSeq(t, a + 2, IF b = 0 THEN Len(t) ELSE b - 1)

\* seg.strip().split()[0]: the first run of non-blank characters; <<>> stands
\* for the IndexError of an all-blank segment
FirstToken(seg) ==
  LET i == 1 + SpaceRun(seg, 1)
  IN  SubSeq(seg, i, i + NonSpaceRun(seg, i) - 1)

\* does int(tok) succeed: an optional sign, then digits only
IsIntLiteral(tok) ==
  LET body == IF tok # <<>> /\ tok[1] \in {"-", "+"} THEN Tail(tok) ELSE tok
  IN  body # <<>> /\ \A i \in DOMAIN body : IsDigit(body[i])

IntValue(tok) ==
  IF tok[1] = "-" THEN 0 - DigitsValue(Tail(tok))
  ELSE IF tok[1] = "+" THEN DigitsValue(Tail(tok))
  ELSE DigitsValue(tok)

\* page_count of get_archive_pages for the text of the first page
ArchivePageCount(t) ==
  IF FindFrom(t, Of, 1) = 0
    THEN 1                                   \* 'of' not in pagination_text
    ELSE LET tok == FirstToken(AfterFirstOf(t))
         IN  IF tok = <<>> \/ ~IsIntLiteral(tok)
               THEN AmpDefaultPages          \* except (ValueError, IndexError)
               ELSE PyFloorDiv(IntValue(tok) + AmpIssuesPerPage - 1,
                               AmpIssuesPerPage)

\* archive_url for page 1, f"{archive_url}{page_num}" otherwise
APageUrl(n) == IF n = 1 THEN <<"archive/">> ELSE <<"archive/", n>>

\* [url(page_num) for page_num in range(1, page_count + 1)]
ArchivePageUrls(count) == [n \in 1..count |-> APageUrl(n)]

\* response = self._make_request(self.archive_url)
AFirst(ok) ==
  /\ impl = "acta"
  /\ pstage = "first"
  /\ requested' = Append(requested, APageUrl(1))
  /\ pstage' = AfterFirstPage(ok, "parse")
  /\ UNCHANGED <<impl, page, shown, nav, pagination_info, total_pages, page_num,
                 walked, all_magazine_links, pages_failed, archive_pages,
                 notPag>>

\* the rest of get_archive_pages: parse the text, build the list, return it
AParse ==
  /\ impl = "acta"
  /\ pstage = "parse"
  /\ archive_pages' = ArchivePageUrls(ArchivePageCount(GetText(page)))
  /\ pstage' = "returned"
  /\ UNCHANGED <<impl, page, shown, nav, pagination_info, total_pages, page_num,
                 walked, requested, all_magazine_links, pages_failed, notPag>>

(***************************************************************************)
(* SpecPag: the discovery of the listing pages, for every first listing    *)
(* page of a small family: some leading text, a pagination line            *)
(* 'start-end of total' or none, and a navigation link or none.            *)
(***************************************************************************)
\* largest start, end and total of the pagination lines explored
MaxStart == 3
MaxEnd == 4
MaxTotal == 6

Shows == [present : {TRUE}, start : 1..MaxStart, end : 1..MaxEnd,
          total : 0..MaxTotal]
           \cup {[present |-> TRUE, start |-> 1, end |-> 25, total |-> 355],
                 [present |-> TRUE, start |-> 1, end |-> 50, total |-> 169]}
NoShow == [present |-> FALSE, start |-> 0, end |-> 0, total |-> 0]

ShowText(sh) ==
  IF sh.present
    THEN Str(sh.start) \o <<"-">> \o Str(sh.end) \o <<" ", "o", "f", " ">>
           \o Str(sh.total)
    ELSE <<>>

\* text in front of the pagination line
Prefixes == { <<>>,
              <<"I", "s", "s", "u", "e", "s", " ">>,
              <<"P", "r", "o", "f", "i", "l", "e", " ">> }

\* the navigation link after the pagination line, by name
NavLabels == {"none", "Next", "Home", "SEGUINTE"}
NavText(l) ==
  CASE l = "Next" -> <<"N", "e", "x", "t">>
    [] l = "Home" -> <<"H", "o", "m", "e">>
    [] l = "SEGUINTE" -> <<"S", "E", "G", "U", "I", "N", "T", "E">>
    [] OTHER -> <<>>

\* the first listing page: text, pagination line, blank or not, link, issues
FirstPage(pfx, sh, blank, l) ==
  <<TextNode(pfx \o ShowText(sh))>>
    \o (IF blank THEN <<TextNode(<<" ">>)>> ELSE <<>>)
    \o (IF l = "none" THEN <<>> ELSE <<ANode(NavText(l), "", <<"nav">>)>>)
    \o IssueAnchors(1)

ReqIdle ==
  /\ retries = 0 /\ retry_count = 0 /\ delay = 0 /\ pc = "idle"
  /\ attempt = 0 /\ trace = <<>> /\ result = "pending"

PagInit ==
  /\ impl \in Scrapers
  /\ shown \in Shows \cup {NoShow}
  /\ nav \in NavLabels
  /\ \E pfx \in Prefixes : \E blank \in BOOLEAN :
       page = FirstPage(pfx, shown, blank, nav)
  /\ pstage = "first"
  /\ pagination_info = None
  /\ total_pages = 0
  /\ page_num = 0
  /\ walked = <<>>
  /\ requested = <<>>
  /\ all_magazine_links = <<>>
  /\ pages_failed = 0
  /\ archive_pages = <<>>
  /\ ReqIdle
  /\ CrawlIdle

PagNext ==
  \/ \E ok \in BOOLEAN : MFirst(ok)
  \/ MDetect
  \/ \E ok \in BOOLEAN : MWalk(ok)
  \/ \E ok \in BOOLEAN : AFirst(ok)
  \/ AParse

SpecPag == PagInit /\ [][PagNext]_vars

(***************************************************************************)
(* The pages of the Acta Medica Portuguesa site behind the first listing   *)
(* page.  A link is a sequence of tokens: the host (absolute links only),  *)
(* a path and the digit that names the issue or the article.               *)
(***************************************************************************)
AmpHost == "https://amp"
IssuePath == "/issue/view/"
ArticlePath == "/article/view/"
RelIssue(d) == <<IssuePath, d>>
AbsIssue(d) == <<AmpHost, IssuePath, d>>
RelArticle(d) == <<ArticlePath, d>>
AbsArticle(d) == <<AmpHost, ArticlePath, d>>
AboutHref == <<"/about">>

\* urljoin(self.base_url, href): an absolute link stays, a relative one gets
\* the host in front
UrlJoin(href) ==
  IF href # <<>> /\ Head(href) = AmpHost THEN href ELSE <<AmpHost>> \o href

\* href=re.compile(r'/issue/view/\d+'): the path, then a digit, anywhere
IsIssueHref(href) ==
  \E i \in 1..(Len(href) - 1) : href[i] = IssuePath /\ IsDigit(href[i + 1])

\* the <a> elements of a listing page for a list of links
AnchorsOf(hrefs) ==
  [i \in DOMAIN hrefs |-> ANode(<<"V", "o", "l">>, "", hrefs[i])]

\* a heading of an issue page: its tag, its string, the href of its <a>
HNode(tag, t, h) == [tag |-> tag, s |-> t, class |-> "", href |-> h]

\* the issue pages of the site
AmpIssuePage(d) ==
  CASE d = "1" -> << HNode("h1", <<"V", "o", "l">>, <<>>),
                     HNode("h3", <<"T", "a">>, RelArticle("1")),
                     HNode("h3", <<"T", "a">>, AbsArticle("1")) >>
    [] d = "2" -> << HNode("h3", <<"T", "a">>, RelArticle("1")),
                     HNode("h3", <<>>, RelArticle("3")),
                     HNode("h3", <<"T", "b">>, RelArticle("2")) >>
    [] OTHER   -> << HNode("h1", <<"V", "o", "l">>, <<>>) >>

RECURSIVE Dedup(_)
\* keep the first occurrence of every element (`if x not in list: append`)
Dedup(q) ==
  IF q = <<>> THEN <<>>
  ELSE LET r == Dedup(SubSeq(q, 1, Len(q) - 1))
           x == q[Len(q)]
       IN  IF \E i \in DOMAIN r : r[i] = x THEN r ELSE Append(r, x)

RECURSIVE SelectSeqBy(_, _)
SelectSeqBy(q, keep) ==
  IF q = <<>> THEN <<>>
  ELSE (IF keep[1] THEN <<Head(q)>> ELSE <<>>)
         \o SelectSeqBy(Tail(q), Tail(keep))

\* soup.find_all('a', href=re.compile(...)) and urljoin of every hit
FoundIssueLinks(doc) ==
  LET hit == [i \in DOMAIN doc |-> doc[i].tag = "a" /\ IsIssueHref(doc[i].href)]
      hits == SelectSeqBy(doc, hit)
  IN  [i \in DOMAIN hits |-> UrlJoin(hits[i].href)]

\* extract_issue_links on a fetched page
ExtractIssueLinks(doc) == Dedup(FoundIssueLinks(doc))

\* the order of sorted() on the issue URLs: they differ in the last token
UrlKey(u) == DigitVal(u[Len(u)])
RECURSIVE SortedUrls(_)
\* the elements of a set of URLs in that order
SortedUrls(S) ==
  IF S = {} THEN <<>>
  ELSE LET m == CHOOSE u \in S : \A v \in S : UrlKey(u) <= UrlKey(v)
       IN  <<m>> \o SortedUrls(S \ {m})

Range(q) == {q[i] : i \in DOMAIN q}

RECURSIVE UniqueSortedKeepsRepeats(_)
\* sorted(links) without the set(): every occurrence is kept
UniqueSortedKeepsRepeats(q) ==
  IF q = <<>> THEN <<>>
  ELSE LET m == CHOOSE i \in DOMAIN q :
                  \A j \in DOMAIN q : UrlKey(q[i]) <= UrlKey(q[j])
           rest == [j \in 1..(Len(q) - 1) |-> IF j < m THEN q[j] ELSE q[j + 1]]
       IN  <<q[m]>> \o UniqueSortedKeepsRepeats(rest)

\* sorted(list(set(all_issue_links)))
UniqueSorted(q) == SortedUrls(Range(q))

\* `if max_issues:` is true for an integer other than 0
Truthy(m) == m.given /\ m.n # 0

\* issue_links[:max_issues] when max_issues is truthy
CutToMaxIssues(q, m) ==
  IF Truthy(m) THEN SubSeq(q, 1, IF m.n < Len(q) THEN m.n ELSE Len(q)) ELSE q

\* extract_article_links_from_issue on a fetched issue page: one article_info
\* per heading that has a string and an <a href>
ExtractArticleInfos(doc, issue_url) ==
  LET hit == [i \in DOMAIN doc |->
                /\ doc[i].tag \in {"h1", "h2", "h3", "h4"}
                /\ doc[i].s # <<>>
                /\ doc[i].href # <<>>]
      hits == SelectSeqBy(doc, hit)
  IN  [i \in DOMAIN hits |->
         [article_url |-> UrlJoin(hits[i].href), title |-> hits[i].s,
          issue_url |-> issue_url]]

\* the listing page behind archive_pages[n]
AmpListingPage(n) ==
  IF n = 1 THEN page
  ELSE IF n - 1 \in DOMAIN site THEN site[n - 1] ELSE <<>>

(***************************************************************************)
(* AMPScraper.scrape_all_articles (acta.py 445-507) with                   *)
(* get_all_issue_links (228-253).  get_archive_pages is AFirst and AParse. *)
(***************************************************************************)
\* get_all_issue_links after get_archive_pages returned
AIssuesBegin ==
  /\ impl = "acta"
  /\ cstage = "archive"
  /\ pstage \in {"returned", "no_first_page"}
  /\ cstage' = "issues"
  /\ pos' = 1
  /\ UNCHANGED <<impl, reqVars, pagVars, site, max_workers, max_issues,
                 discovered, all_issue_links, issue_links, article_links,
                 skipped, tasks, consumed, todo, leaf_busy, all_articles>>

\* one iteration of `for i, archive_page in enumerate(archive_pages, 1)`
AIssuesPage(ok) ==
  /\ impl = "acta"
  /\ cstage = "issues"
  /\ pos <= Len(archive_pages)
  /\ ok \/ pages_failed < MaxFailedPages
  /\ pages_failed' = IF ok THEN pages_failed ELSE pages_failed + 1
  /\ requested' = Append(requested, archive_pages[pos])
  /\ discovered' = IF ok THEN discovered \o FoundIssueLinks(AmpListingPage(pos))
                   ELSE discovered
  /\ all_issue_links' =
       IF ok THEN all_issue_links \o ExtractIssueLinks(AmpListingPage(pos))
       ELSE all_issue_links
  /\ pos' = pos + 1
  /\ UNCHANGED <<impl, reqVars, page, shown, nav, pstage, pagination_info,
                 total_pages, page_num, walked, all_magazine_links,
                 archive_pages, site, max_workers, max_issues, cstage,
                 issue_links, article_links, skipped, tasks, consumed, todo,
                 leaf_busy, all_articles>>

\* the futures of one executor.submit per URL
SubmitAll(urls) ==
  [i \in DOMAIN urls |-> [url |-> urls[i], st |-> "pending", res |-> <<>>]]

\* the end of get_all_issue_links (set, sorted), the max_issues cut and the
\* submission of one task per issue URL
ASubmit ==
  /\ impl = "acta"
  /\ cstage = "issues"
  /\ pos > Len(archive_pages)
  /\ all_issue_links' = UniqueSorted(all_issue_links)
  /\ issue_links' = CutToMaxIssues(all_issue_links', max_issues)
  /\ tasks' = SubmitAll(issue_links')
  /\ cstage' = "collect"
  /\ UNCHANGED <<impl, reqVars, pagVars, site, max_workers, max_issues, pos,
                 discovered, article_links, skipped, consumed, todo,
                 leaf_busy, all_articles>>

Running == {i \in DOMAIN tasks : tasks[i].st = "running"}
Pending == {i \in DOMAIN tasks : tasks[i].st = "pending"}

\* a pool thread takes the oldest queued task and enters its _make_request
AWorkerStart(i) ==
  /\ impl = "acta"
  /\ cstage = "collect"
  /\ i \in Pending
  /\ \A j \in Pending : i <= j
  /\ Cardinality(Running) < max_workers
  /\ tasks' = [tasks EXCEPT ![i].st = "running"]
  /\ requested' = Append(requested, tasks[i].url)
  /\ UNCHANGED <<impl, reqVars, page, shown, nav, pstage, pagination_info,
                 total_pages, page_num, walked, all_magazine_links,
                 pages_failed, archive_pages, site, max_workers, max_issues,
                 cstage, pos, discovered, all_issue_links, issue_links,
                 article_links, skipped, consumed, todo, leaf_busy,
                 all_articles>>

\* the thread's extract_article_links_from_issue returns
AWorkerFinish(i, ok) ==
  /\ impl = "acta"
  /\ cstage = "collect"
  /\ i \in Running
  /\ tasks' = [tasks EXCEPT
                 ![i].st = "done",
                 ![i].res = IF ok
                              THEN ExtractArticleInfos(
                                     AmpIssuePage(tasks[i].url[Len(tasks[i].url)]),
                                     tasks[i].url)
                              ELSE <<>>]
  /\ UNCHANGED <<impl, reqVars, pagVars, site, max_workers, max_issues,
                 cstage, pos, discovered, all_issue_links, issue_links,
                 article_links, skipped, consumed, todo, leaf_busy,
                 all_articles>>

\* as_completed hands a finished future to the coordinator: future.result()
ATake(i) ==
  /\ impl = "acta"
  /\ cstage = "collect"
  /\ todo = <<>>
  /\ i \in DOMAIN tasks
  /\ tasks[i].st = "done"
  /\ i \notin consumed
  /\ consumed' = consumed \cup {i}
  /\ todo' = tasks[i].res
  /\ UNCHANGED <<impl, reqVars, pagVars, site, max_workers, max_issues,
                 cstage, pos, discovered, all_issue_links, issue_links,
                 article_links, skipped, tasks, leaf_busy, all_articles>>

\* the coordinator enters extract_article_data's _make_request
ALeafStart ==
  /\ impl = "acta"
  /\ cstage = "collect"
  /\ todo # <<>>
  /\ ~leaf_busy
  /\ leaf_busy' = TRUE
  /\ requested' = Append(requested, Head(todo).article_url)
  /\ UNCHANGED <<impl, reqVars, page, shown, nav, pstage, pagination_info,
                 total_pages, page_num, walked, all_magazine_links,
                 pages_failed, archive_pages, site, max_workers, max_issues,
                 cstage, pos, discovered, all_issue_links, issue_links,
                 article_links, skipped, tasks, consumed, todo, all_articles>>

\* how extract_article_data can end: _make_request returned None (the basic
\* record is returned), an exception before the try of line 379 (it reaches
\* the `except` of line 494: no record), an exception inside that try (it
\* is printed and the record filled so far is returned), or all went well
AmpLeafOutcomes == {"fetch_failed", "parse_raised", "extract_raised", "ok"}

\* the AMPArticleData appended for article_info after outcome o
AmpRecord(info, o) ==
  [url_artigo |-> info.article_url, titulo |-> info.title,
   fetch |-> IF o = "fetch_failed" THEN "None" ELSE "response",
   metadata |-> CASE o = "ok" -> "detailed"
                  [] o = "extract_raised" -> "partial"
                  [] OTHER -> "basic"]

\* extract_article_data ends; all_articles_data.append unless it raised
ALeafFinish(o) ==
  /\ impl = "acta"
  /\ cstage = "collect"
  /\ leaf_busy
  /\ all_articles' = IF o = "parse_raised" THEN all_articles
                     ELSE Append(all_articles, AmpRecord(Head(todo), o))
  /\ todo' = Tail(todo)
  /\ leaf_busy' = FALSE
  /\ UNCHANGED <<impl, reqVars, pagVars, site, max_workers, max_issues,
                 cstage, pos, discovered, all_issue_links, issue_links,
                 article_links, skipped, tasks, consumed>>

\* the pool is left and the totals are printed:
\* len(all_articles_data)/len(issue_links) raises ZeroDivisionError
AReturn ==
  /\ impl = "acta"
  /\ cstage = "collect"
  /\ todo = <<>>
  /\ consumed = DOMAIN tasks
  /\ cstage' = IF Len(issue_links) = 0 THEN "raised" ELSE "returned"
  /\ UNCHANGED <<impl, reqVars, pagVars, site, max_workers, max_issues, pos,
                 discovered, all_issue_links, issue_links, article_links,
                 skipped, tasks, consumed, todo, leaf_busy, all_articles>>

(***************************************************************************)
(* SpecAmp: one call of AMPScraper.scrape_all_articles on a small site:    *)
(* one or two listing pages whose links repeat and overlap, three issues.  *)
(***************************************************************************)
\* largest pool explored
MaxWorkers == 2
\* largest max_issues argument explored
MaxIssuesArg == 1

\* what the first listing page prints: nothing, two pages' worth, none
AmpShows ==
  { NoShow,
    [present |-> TRUE, start |-> 1, end |-> 25, total |-> 26],
    [present |-> TRUE, start |-> 1, end |-> 1, total |-> 0] }

\* the links of the first listing page and of the second
AmpFirstListings ==
  { <<>>,
    <<RelIssue("2"), AboutHref, RelIssue("1"), AbsIssue("1")>> }
AmpSecondListings ==
  { <<>>,
    <<RelIssue("2"), RelIssue("3")>> }

AmpFirstPage(sh, hrefs) ==
  <<TextNode(ShowText(sh)), TextNode(<<" ">>)>> \o AnchorsOf(hrefs)

AmpInit ==
  /\ impl = "acta"
  /\ shown \in AmpShows
  /\ nav = "none"
  /\ \E hrefs \in AmpFirstListings : page = AmpFirstPage(shown, hrefs)
  /\ \E hrefs \in AmpSecondListings : site = <<AnchorsOf(hrefs)>>
  /\ pstage = "first"
  /\ pagination_info = None
  /\ total_pages = 0
  /\ page_num = 0
  /\ walked = <<>>
  /\ requested = <<>>
  /\ all_magazine_links = <<>>
  /\ pages_failed = 0
  /\ archive_pages = <<>>
  /\ ReqIdle
  /\ max_workers \in 1..MaxWorkers
  /\ max_issues \in {NoMaxIssues} \cup [given : {TRUE}, n : 0..MaxIssuesArg]
  /\ cstage = "archive"
  /\ pos = 0
  /\ discovered = <<>>
  /\ all_issue_links = <<>>
  /\ issue_links = <<>>
  /\ article_links = <<>>
  /\ skipped = {}
  /\ tasks = <<>>
  /\ consumed = {}
  /\ todo = <<>>
  /\ leaf_busy = FALSE
  /\ all_articles = <<>>

AmpNext ==
  \/ \E ok \in BOOLEAN : AFirst(ok)
  \/ AParse
  \/ AIssuesBegin
  \/ \E ok \in BOOLEAN : AIssuesPage(ok)
  \/ ASubmit
  \/ \E i \in DOMAIN tasks : AWorkerStart(i)
  \/ \E i \in DOMAIN tasks : \E ok \in BOOLEAN : AWorkerFinish(i, ok)
  \/ \E i \in DOMAIN tasks : ATake(i)
  \/ ALeafStart
  \/ \E o \in AmpLeafOutcomes : ALeafFinish(o)
  \/ AReturn

SpecAmp == AmpInit /\ [][AmpNext]_vars

(***************************************************************************)
(* The pages of the RPMGF site behind the listing pages: the magazine      *)
(* pages list articles in <h3 class='title'> headings, the article pages   *)
(* name the authors.                                                       *)
(***************************************************************************)
ArticleHref(k) == <<"article", "/", k>>

\* <h3 class='title'><a href=h>t</a></h3>
H3Title(t, h) == [tag |-> "h3", s |-> t, class |-> "title", href |-> h]

\* the magazine page behind the URL of issue k
RpmIssuePage(k) ==
  CASE k = 1 -> << H3Title(<<"T", "a">>, ArticleHref(1)),
                   H3Title(<<"T", "a">>, ArticleHref(1)) >>
    [] k = 3 -> << H3Title(<<"T", "b">>, ArticleHref(2)) >>
    [] k = 4 -> << H3Title(<<"T", "a">>, ArticleHref(1)),
                   HNode("h3", <<"T", "c">>, ArticleHref(3)) >>
    [] k = 5 -> << H3Title(<<"T", "a">>, ArticleHref(1)),
                   H3Title(<<"T", "d">>, ArticleHref(4)) >>
    [] k = 6 -> << H3Title(<<"T", "c">>, ArticleHref(3)) >>
    [] OTHER -> << >>

\* the <span class='name'> elements of the article page of article k
ArticleAuthors(k) ==
  CASE k = 1 -> <<"Ana">>
    [] k = 2 -> <<"Rui", "Eva">>
    [] k = 4 -> <<"Ivo">>
    [] OTHER -> << >>

\* get_article_links, the parsing of one magazine page: the href of every
\* <a> in an <h3 class='title'>
ExtractArticleLinks(doc) ==
  LET hit == [i \in DOMAIN doc |->
                doc[i].tag = "h3" /\ doc[i].class = "title" /\ doc[i].href # <<>>]
      hits == SelectSeqBy(doc, hit)
  IN  [i \in DOMAIN hits |-> hits[i].href]

\* variant: one ArticleData for the article, with its first author
RecordsOfFirstAuthor(url) ==
  LET au == ArticleAuthors(url[3])
  IN  IF au = <<>> THEN <<>> ELSE << [url |-> url, autor |-> au[1]] >>

\* extract_article_data on a fetched article page: one ArticleData per author
RecordsOf(url) ==
  LET au == ArticleAuthors(url[3])
  IN  [i \in DOMAIN au |-> [url |-> url, autor |-> au[i]]]

\* how a leaf task can end: _make_request returned None, the parsing raised
\* inside the try (both give None), an exception left the task, or records
LeafOutcomes == {"fetch_failed", "extract_raised", "raised", "ok"}

\* the two versions of the class: rpmgf_improved.py and rpmgf.py
RpmgfVersions == {"rpmgf", "rpmgf_v1"}

(***************************************************************************)
(* RPMGFScraper.scrape_all_articles (rpmgf_improved.py 626-704) with       *)
(* get_article_links (278-355); get_magazine_links is MFirst, MDetect and  *)
(* MWalk, and MSinglePage in rpmgf.py.                                     *)
(***************************************************************************)
\* rpmgf.py get_magazine_links (78-103): one request, the links of that page
MSinglePage(ok) ==
  /\ impl = "rpmgf_v1"
  /\ pstage = "first"
  /\ requested' = Append(requested, RPageUrl(1))
  /\ all_magazine_links' = IF ok THEN ExtractMagazineLinks(page) ELSE <<>>
  /\ pstage' = IF ok THEN "returned" ELSE "no_first_page"
  /\ UNCHANGED <<impl, reqVars, page, shown, nav, pagination_info,
                 total_pages, page_num, walked, pages_failed, archive_pages,
                 crawlVars>>

\* get_magazine_links has returned to get_article_links
MagazineLinksReturnedEarly == pstage \in {"walk", "returned", "no_first_page"}
MagazineLinksReturned == pstage \in {"returned", "no_first_page"}

\* revistas_links = self.get_magazine_links(); `if not revistas_links`
RArticlesBegin ==
  /\ impl \in RpmgfVersions
  /\ cstage = "magazines"
  /\ MagazineLinksReturned
  /\ issue_links' = all_magazine_links
  /\ discovered' = all_magazine_links
  /\ pos' = 1
  /\ cstage' = IF all_magazine_links = <<>> THEN "returned" ELSE "articles"
  /\ UNCHANGED <<impl, reqVars, pagVars, site, max_workers, max_issues,
                 all_issue_links, article_links, skipped, tasks, consumed,
                 todo, leaf_busy, all_articles>>

\* one iteration of `for index, url in enumerate(revistas_links, 1)`: a failed
\* fetch and a parsing error both skip the magazine
RArticlesMagazine(ok) ==
  /\ impl \in RpmgfVersions
  /\ cstage = "articles"
  /\ pos <= Len(issue_links)
  /\ requested' = Append(requested, issue_links[pos])
  /\ article_links' =
       IF ok
         THEN article_links \o ExtractArticleLinks(RpmIssuePage(issue_links[pos][3]))
         ELSE article_links
  /\ skipped' = IF ok THEN skipped ELSE skipped \cup {pos}
  /\ pos' = pos + 1
  /\ UNCHANGED <<impl, reqVars, page, shown, nav, pstage, pagination_info,
                 total_pages, page_num, walked, all_magazine_links,
                 pages_failed, archive_pages, site, max_workers, max_issues,
                 cstage, discovered, all_issue_links, issue_links, tasks,
                 consumed, todo, leaf_busy, all_articles>>

\* get_article_links returns; `if not article_links: return []`, else one
\* executor.submit per element of article_links
SubmitLeaves(urls) ==
  [i \in DOMAIN urls |->
     [url |-> urls[i], st |-> "pending", res |-> <<>>, att |-> 0,
      late |-> FALSE]]

RSubmit ==
  /\ impl \in RpmgfVersions
  /\ cstage = "articles"
  /\ pos > Len(issue_links)
  /\ tasks' = SubmitLeaves(article_links)
  /\ cstage' = IF article_links = <<>> THEN "returned" ELSE "collect"
  /\ UNCHANGED <<impl, reqVars, pagVars, site, max_workers, max_issues, pos,
                 discovered, all_issue_links, issue_links, article_links,
                 skipped, consumed, todo, leaf_busy, all_articles>>

\* the pool of the `with` block is running its threads: during the
\* as_completed loop, and in the shutdown(wait=True) of the block's exit when
\* a KeyboardInterrupt leaves the loop
PoolAlive == cstage \in {"collect", "interrupted"}

\* a thread of the pool is free to take a queued task
PoolHasIdleThreadButOne == Cardinality(Running) < max_workers - 1
PoolHasIdleThread == Cardinality(Running) < max_workers

\* a pool thread takes the oldest queued task: extract_article_data's fetch;
\* `late` notes a task begun after the interrupt
RWorkerStart(i) ==
  /\ impl \in RpmgfVersions
  /\ PoolAlive
  /\ i \in Pending
  /\ \A j \in Pending : i <= j
  /\ PoolHasIdleThread
  /\ tasks' = [tasks EXCEPT ![i].st = "running",
                            ![i].late = (cstage = "interrupted")]
  /\ requested' = Append(requested, tasks[i].url)
  /\ UNCHANGED <<impl, reqVars, page, shown, nav, pstage, pagination_info,
                 total_pages, page_num, walked, all_magazine_links,
                 pages_failed, archive_pages, site, max_workers, max_issues,
                 cstage, pos, discovered, all_issue_links, issue_links,
                 article_links, skipped, consumed, todo, leaf_busy,
                 all_articles>>

\* `attempt == retries - 1` of the attempt now made, _make_request(url) being
\* called with its default retries
LastAttempt(t) == t.att + 1 = DefaultRetries

\* an attempt of the task's _make_request fails and the loop goes round
RWorkerRetry(i) ==
  /\ impl \in RpmgfVersions
  /\ PoolAlive
  /\ i \in Running
  /\ ~LastAttempt(tasks[i])
  /\ tasks' = [tasks EXCEPT ![i].att = @ + 1]
  /\ UNCHANGED <<impl, reqVars, pagVars, site, max_workers, max_issues,
                 cstage, pos, discovered, all_issue_links, issue_links,
                 article_links, skipped, consumed, todo, leaf_busy,
                 all_articles>>

\* the thread's extract_article_data ends: the attempt gave a response, or
\* the last attempt failed; the call's attempt counter ends with the call
RWorkerFinish(i, o) ==
  /\ impl \in RpmgfVersions
  /\ PoolAlive
  /\ i \in Running
  /\ o = "fetch_failed" => LastAttempt(tasks[i])
  /\ tasks' = [tasks EXCEPT
                 ![i].st = IF o = "raised" THEN "raised" ELSE "done",
                 ![i].res = IF o = "ok" THEN RecordsOf(tasks[i].url) ELSE <<>>,
                 ![i].att = 0]
  /\ UNCHANGED <<impl, reqVars, pagVars, site, max_workers, max_issues,
                 cstage, pos, discovered, all_issue_links, issue_links,
                 article_links, skipped, consumed, todo, leaf_busy,
                 all_articles>>

\* all_articles when a result replaces the list instead of extending it
CollectedOverwrites(acc, t) == IF t.st = "done" THEN t.res ELSE acc
\* all_articles after the except branch emptied it
CollectedDropsOnError(acc, t) == IF t.st = "done" THEN acc \o t.res ELSE <<>>
\* all_articles after one future: extended by a truthy result, left alone
\* when result() raised or gave None
Collected(acc, t) == IF t.st = "done" THEN acc \o t.res ELSE acc

\* one iteration of `for future in as_completed(future_to_url)`:
\* future.result() in a try, all_articles.extend(result) when it is truthy
RTake(i) ==
  /\ impl \in RpmgfVersions
  /\ cstage = "collect"
  /\ i \in DOMAIN tasks
  /\ tasks[i].st \in {"done", "raised"}
  /\ i \notin consumed
  /\ consumed' = consumed \cup {i}
  /\ all_articles' = Collected(all_articles, tasks[i])
  /\ UNCHANGED <<impl, reqVars, pagVars, site, max_workers, max_issues,
                 cstage, pos, discovered, all_issue_links, issue_links,
                 article_links, skipped, tasks, todo, leaf_busy>>

\* processed_count, one more for every future the loop has taken
processed_count == Cardinality(consumed)

\* a KeyboardInterrupt reaches the coordinating thread in the as_completed
\* loop; it is no Exception, so it leaves the loop and enters the exit of the
\* `with` block, executor.shutdown(wait=True)
RInterrupt ==
  /\ impl \in RpmgfVersions
  /\ cstage = "collect"
  /\ cstage' = "interrupted"
  /\ UNCHANGED <<impl, reqVars, pagVars, site, max_workers, max_issues, pos,
                 discovered, all_issue_links, issue_links, article_links,
                 skipped, tasks, consumed, todo, leaf_busy, all_articles>>

\* shutdown(wait=True) returns once the threads have emptied the queue; the
\* KeyboardInterrupt reaches main's `except KeyboardInterrupt`, which logs
RPoolExit ==
  /\ impl \in RpmgfVersions
  /\ cstage = "interrupted"
  /\ Running = {}
  /\ Pending = {}
  /\ cstage' = "main_interrupted"
  /\ UNCHANGED <<impl, reqVars, pagVars, site, max_workers, max_issues, pos,
                 discovered, all_issue_links, issue_links, article_links,
                 skipped, tasks, consumed, todo, leaf_busy, all_articles>>

\* main after `articles = scraper.scrape_all_articles()`: `if not articles:
\* return`, else save_to_excel(articles, ...) and save_to_csv(articles, ...)
RMain ==
  /\ impl \in RpmgfVersions
  /\ cstage = "returned"
  /\ cstage' = IF all_articles = <<>> THEN "no_articles" ELSE "saved"
  /\ UNCHANGED <<impl, reqVars, pagVars, site, max_workers, max_issues, pos,
                 discovered, all_issue_links, issue_links, article_links,
                 skipped, tasks, consumed, todo, leaf_busy, all_articles>>

\* the pool is left, the totals are logged, return all_articles
RReturn ==
  /\ impl \in RpmgfVersions
  /\ cstage = "collect"
  /\ consumed = DOMAIN tasks
  /\ cstage' = "returned"
  /\ UNCHANGED <<impl, reqVars, pagVars, site, max_workers, max_issues, pos,
                 discovered, all_issue_links, issue_links, article_links,
                 skipped, tasks, consumed, todo, leaf_busy, all_articles>>

(***************************************************************************)
(* SpecRpm: one call of RPMGFScraper.scrape_all_articles on a small site:  *)
(* one or two listing pages, links that repeat and overlap, four issues.   *)
(***************************************************************************)
\* what the first listing page prints: nothing, or two pages' worth
RpmShows ==
  { NoShow, [present |-> TRUE, start |-> 1, end |-> 2, total |-> 4],
    [present |-> TRUE, start |-> 1, end |-> 2, total |-> 2] }

\* the magazine links of the first listing page: none, issues 1 and 2, or
\* twice issue 3, which listing page 2 has too
RpmFirstListings ==
  { <<>>,
    IssueAnchors(1),
    << ANode(<<"V", "c">>, "title", IssueHref(3)),
       ANode(<<"V", "c">>, "title", IssueHref(3)) >>,
    << ANode(<<"V", "e">>, "title", IssueHref(5)) >>,
    << ANode(<<"V", "f">>, "title", IssueHref(6)) >> }

RpmFirstPage(sh, anchors) ==
  <<TextNode(ShowText(sh)), TextNode(<<" ">>)>> \o anchors

RpmInit ==
  /\ impl \in RpmgfVersions
  /\ shown \in RpmShows
  /\ nav = "none"
  /\ \E anchors \in RpmFirstListings : page = RpmFirstPage(shown, anchors)
  /\ site = <<>>
  /\ pstage = "first"
  /\ pagination_info = None
  /\ total_pages = 0
  /\ page_num = 0
  /\ walked = <<>>
  /\ requested = <<>>
  /\ all_magazine_links = <<>>
  /\ pages_failed = 0
  /\ archive_pages = <<>>
  /\ ReqIdle
  /\ max_workers \in 1..MaxWorkers
  /\ max_issues = NoMaxIssues
  /\ cstage = "magazines"
  /\ pos = 0
  /\ discovered = <<>>
  /\ all_issue_links = <<>>
  /\ issue_links = <<>>
  /\ article_links = <<>>
  /\ skipped = {}
  /\ tasks = <<>>
  /\ consumed = {}
  /\ todo = <<>>
  /\ leaf_busy = FALSE
  /\ all_articles = <<>>

RpmNext ==
  \/ \E ok \in BOOLEAN : MFirst(ok)
  \/ MDetect
  \/ \E ok \in BOOLEAN : MWalk(ok)
  \/ \E ok \in BOOLEAN : MSinglePage(ok)
  \/ RArticlesBegin
  \/ \E ok \in BOOLEAN : RArticlesMagazine(ok)
  \/ RSubmit
  \/ \E i \in DOMAIN tasks : RWorkerStart(i)
  \/ \E i \in DOMAIN tasks : RWorkerRetry(i)
  \/ \E i \in DOMAIN tasks : \E o \in LeafOutcomes : RWorkerFinish(i, o)
  \/ \E i \in DOMAIN tasks : RTake(i)
  \/ RReturn
  \/ RMain
  \/ RInterrupt
  \/ RPoolExit

SpecRpm == RpmInit /\ [][RpmNext]_vars

\* SpecCrawl: the runs of both scrapers, those of SpecAmp and of SpecRpm
CrawlInit == AmpInit \/ RpmInit
CrawlNext == AmpNext \/ RpmNext
SpecCrawl == CrawlInit /\ [][CrawlNext]_vars

\* the steps of rpmgf_improved.py after the pagination was detected; the
\* arrival of the interrupt is no step of the program
RpmProgress ==
  \/ \E ok \in BOOLEAN : MFirst(ok)
  \/ \E ok \in BOOLEAN : MWalk(ok)
  \/ RArticlesBegin
  \/ \E ok \in BOOLEAN : RArticlesMagazine(ok)
  \/ RSubmit
  \/ \E i \in DOMAIN tasks : RWorkerStart(i)
  \/ \E i \in DOMAIN tasks : RWorkerRetry(i)
  \/ \E i \in DOMAIN tasks : \E o \in LeafOutcomes : RWorkerFinish(i, o)
  \/ \E i \in DOMAIN tasks : RTake(i)
  \/ RReturn
  \/ RMain
  \/ RPoolExit

\* rpmgf_improved.py on the sites of RpmInit; of the sites with two listing
\* pages, the one whose first page lists issues 1 and 2
RpmFairInit ==
  /\ RpmInit
  /\ impl = "rpmgf"
  /\ (shown.present /\ shown.total > 2)
       => page = RpmFirstPage(shown, IssueAnchors(1))

\* rpmgf_improved.py alone: every step but that of rpmgf.py
RpmFairNext ==
  \/ MDetect
  \/ RpmProgress
  \/ RInterrupt

\* SpecRpm under fair scheduling: the coordinating thread and the pool
\* threads are operating-system threads, and a request ends within its
\* timeout, so a step of the program that can be taken is taken in the end.
\* MDetect can be taken exactly when pstage = "detect" and leaves that
\* stage, so its weak fairness is written as the recurrence of
\* pstage # "detect".
SpecRpmFair ==
  /\ RpmFairInit
  /\ [][RpmFairNext]_vars
  /\ WF_vars(RpmProgress)
  /\ []<>(pstage # "detect")

(***************************************************************************)
(* acta_medica_optimized.py, main (70-103).  The fetch functions are       *)
(* `async def`: called in a pool thread they only create a coroutine       *)
(* object, which asyncio.gather hands back; a coroutine runs when main     *)
(* awaits it.                                                              *)
(***************************************************************************)
\* `for archive in range(15)`
NumArchives == 15
\* most archive pages of a site that list a magazine
MaxListedPages == 2

\* f'{url}{archive}'
OptArchiveUrl(archive) == <<"archive/", archive>>

\* an <a class='title'> without href: revista['href'] raises KeyError
MissingHref(doc) ==
  \E i \in DOMAIN doc :
    doc[i].tag = "a" /\ doc[i].class = "title" /\ doc[i].href = <<>>

\* [revista['href'] for revista in bs.find_all('a', class_='title')]
RevistaHrefs(doc) ==
  LET hit == [i \in DOMAIN doc |-> doc[i].tag = "a" /\ doc[i].class = "title"]
      hits == SelectSeqBy(doc, hit)
  IN  [i \in DOMAIN hits |-> hits[i].href]

\* the coroutine objects one phase gets back from gather, none started
Coroutines(urls) ==
  [i \in DOMAIN urls |-> [url |-> urls[i], st |-> "created", res |-> <<>>]]

RECURSIVE FlattenRes(_)
\* [link for sublist in results for link in sublist]
FlattenRes(t) ==
  IF t = <<>> THEN <<>> ELSE Head(t).res \o FlattenRes(Tail(t))

\* lines 73-76: fifteen pool calls, gather returns fifteen coroutine objects
OptListingSubmit ==
  /\ impl = "optimized"
  /\ cstage = "start"
  /\ tasks' = Coroutines([a \in 1..NumArchives |-> OptArchiveUrl(a - 1)])
  /\ pos' = 1
  /\ cstage' = "listing"
  /\ UNCHANGED <<impl, reqVars, pagVars, site, max_workers, max_issues,
                 discovered, all_issue_links, issue_links, article_links,
                 skipped, consumed, todo, leaf_busy, all_articles>>

\* line 78, one `await result`: the coroutine runs, session.get and the
\* parsing of the page; an exception leaves main at once
OptListingAwait(o) ==
  LET doc == site[pos]
      raises == o = "raised" \/ MissingHref(doc)
      last == pos = Len(tasks)
  IN  /\ impl = "optimized"
      /\ cstage = "listing"
      /\ pos <= Len(tasks)
      /\ requested' = Append(requested, tasks[pos].url)
      /\ tasks' = [tasks EXCEPT
                     ![pos].st = IF raises THEN "raised" ELSE "done",
                     ![pos].res = IF raises THEN <<>> ELSE RevistaHrefs(doc)]
      /\ issue_links' = IF ~raises /\ last THEN FlattenRes(tasks')
                        ELSE issue_links
      /\ cstage' = IF raises THEN "raised"
                   ELSE IF last THEN "containers" ELSE "listing"
      /\ pos' = pos + 1
      /\ UNCHANGED <<impl, reqVars, page, shown, nav, pstage, pagination_info,
                 total_pages, page_num, walked, all_magazine_links,
                 pages_failed, archive_pages, site, max_workers, max_issues,
                 discovered, all_issue_links, article_links, skipped,
                 consumed, todo, leaf_busy, all_articles>>

\* lines 84-88: one coroutine object per magazine, none awaited; flattening
\* them iterates a coroutine object, which raises TypeError
OptContainerPhase ==
  /\ impl = "optimized"
  /\ cstage = "containers"
  /\ tasks' = Coroutines(issue_links)
  /\ article_links' = <<>>
  /\ cstage' = IF issue_links = <<>> THEN "leaves" ELSE "raised"
  /\ UNCHANGED <<impl, reqVars, pagVars, site, max_workers, max_issues, pos,
                 discovered, all_issue_links, issue_links, skipped,
                 consumed, todo, leaf_busy, all_articles>>

\* lines 93-98: the same for the articles
OptLeafPhase ==
  /\ impl = "optimized"
  /\ cstage = "leaves"
  /\ tasks' = Coroutines(article_links)
  /\ all_articles' = <<>>
  /\ cstage' = IF article_links = <<>> THEN "write" ELSE "raised"
  /\ UNCHANGED <<impl, reqVars, pagVars, site, max_workers, max_issues, pos,
                 discovered, all_issue_links, issue_links, article_links,
                 skipped, consumed, todo, leaf_busy>>

\* lines 101-103: the DataFrame is written to CSV and Excel
OptWrite ==
  /\ impl = "optimized"
  /\ cstage = "write"
  /\ cstage' = "written"
  /\ UNCHANGED <<impl, reqVars, pagVars, site, max_workers, max_issues, pos,
                 discovered, all_issue_links, issue_links, article_links,
                 skipped, tasks, consumed, todo, leaf_busy, all_articles>>

(***************************************************************************)
(* SpecOpt: one run of main, for the sites whose first archive pages may   *)
(* list a magazine and whose third may hold a link without href.           *)
(***************************************************************************)
OptSite(listed, broken) ==
  [a \in 1..NumArchives |->
     IF a \in listed THEN <<ANode(<<"V", "a">>, "title", IssueHref(a))>>
     ELSE IF broken /\ a = MaxListedPages + 1
            THEN <<ANode(<<"V", "b">>, "title", <<>>)>>
            ELSE <<>>]

OptInit ==
  /\ impl = "optimized"
  /\ PagIdle
  /\ ReqIdle
  /\ \E listed \in SUBSET (1..MaxListedPages) : \E broken \in BOOLEAN :
       site = OptSite(listed, broken)
  /\ max_workers = 0
  /\ max_issues = NoMaxIssues
  /\ cstage = "start"
  /\ pos = 0
  /\ discovered = <<>>
  /\ all_issue_links = <<>>
  /\ issue_links = <<>>
  /\ article_links = <<>>
  /\ skipped = {}
  /\ tasks = <<>>
  /\ consumed = {}
  /\ todo = <<>>
  /\ leaf_busy = FALSE
  /\ all_articles = <<>>

OptNext ==
  \/ OptListingSubmit
  \/ \E o \in {"ok", "raised"} : OptListingAwait(o)
  \/ OptContainerPhase
  \/ OptLeafPhase
  \/ OptWrite

SpecOpt == OptInit /\ [][OptNext]_vars

(***************************************************************************)
(* Vocabulary of the claims about the request executors.                   *)
(***************************************************************************)
IsGet(e) == e.op = "get"
IsSleep(e) == e.op = "sleep"
GetIdx(tr) == {i \in DOMAIN tr : IsGet(tr[i])}
NumGets(tr) == Cardinality(GetIdx(tr))
GetsBefore(tr, i) == Cardinality({j \in GetIdx(tr) : j < i})
\* the GET before position i, 0 when there is none
PrevGet(tr, i) ==
  IF \E j \in GetIdx(tr) : j < i
    THEN CHOOSE j \in GetIdx(tr) : j < i /\ \A m \in GetIdx(tr) : m < i => m <= j
    ELSE 0
\* request exception, timeout or error status
ErrorOutcome(e) == e.kind = "exc" \/ (e.kind = "status" /\ e.code >= 400)
\* a status other than 200 and 404, or a request exception
OtherThan200And404(e) == e.kind = "exc" \/ (e.kind = "status" /\ e.code \notin {200, 404})
TransientFor(s, e) == IF s = "rpmgf" THEN ErrorOutcome(e) ELSE OtherThan200And404(e)
AllGetsSatisfy(tr, P(_)) == \A i \in GetIdx(tr) : P(tr[i])
LastEv(tr) == tr[Len(tr)]

(***************************************************************************)
(* C1: RPMGFScraper._make_request with retries = 3 on a URL whose every    *)
(* attempt ends in a request exception, a timeout or an error status       *)
(* issues exactly 3 GETs and then returns None; it never returns a         *)
(* response.                                                               *)
(***************************************************************************)
C1_RetryExhaustion ==
  (impl = "rpmgf" /\ retries = DefaultRetries /\ AllGetsSatisfy(trace, ErrorOutcome))
    => /\ NumGets(trace) <= DefaultRetries
       /\ result # "response"
       /\ pc = "done" => (NumGets(trace) = DefaultRetries /\ result = "None")

C1_Witness ==
  /\ impl = "rpmgf" /\ retries = DefaultRetries /\ pc = "done"
  /\ AllGetsSatisfy(trace, ErrorOutcome)
  /\ NumGets(trace) = DefaultRetries /\ result = "None"

(***************************************************************************)
(* C2: AMPScraper built with retry_attempts = k >= 1: _make_request(url)   *)
(* with its default arguments, on a URL whose every attempt fails          *)
(* transiently, issues exactly k GETs before returning None, and at least  *)
(* one GET.                                                                *)
(***************************************************************************)
C2_ExactlyKGets ==
  (impl = "acta" /\ retry_count = DefaultRetryCount /\ pc = "done"
     /\ AllGetsSatisfy(trace, OtherThan200And404))
    => /\ NumGets(trace) = retries
       /\ NumGets(trace) >= 1
       /\ result = "None"

(***************************************************************************)
(* C3: in every request executor an HTTP 404 answer is terminal: the call  *)
(* returns its failure result at once and issues no further GET.           *)
(***************************************************************************)
C3_NotFoundTerminal ==
  \A i \in GetIdx(trace) :
    (trace[i].kind = "status" /\ trace[i].code = 404)
      => (i = Len(trace) /\ pc = "done" /\ result = "None")

(***************************************************************************)
(* C4: an outcome is final. Once an attempt returns HTTP 200 the call      *)
(* returns the response and neither GETs nor sleeps again; every further   *)
(* attempt follows a transient failure; the number of attempts never       *)
(* exceeds the cap, and a failure on the attempt that reaches the cap ends *)
(* the call with None.                                                     *)
(***************************************************************************)
C4_OutcomeFinal ==
  /\ \A i \in GetIdx(trace) :
       (trace[i].kind = "status" /\ trace[i].code = 200)
         => (i = Len(trace) /\ pc = "done" /\ result = "response")
  /\ \A i \in GetIdx(trace) :
       PrevGet(trace, i) # 0 => TransientFor(impl, trace[PrevGet(trace, i)])
  /\ NumGets(trace) <= retries
  /\ (NumGets(trace) = retries /\ IsGet(LastEv(trace))
        /\ TransientFor(impl, LastEv(trace)))
       => (pc = "done" /\ result = "None")
  /\ pc = "done" => result \in {"response", "None"}
  /\ result # "pending" => pc = "done"

C4_Witness ==
  /\ impl = "acta" /\ pc = "done" /\ result = "response"
  /\ NumGets(trace) >= 2
  /\ LastEv(trace).code = 200
  /\ \E i \in DOMAIN trace : IsSleep(trace[i])

C6_SleepBeforeEveryGet ==
  impl = "rpmgf" =>
    \A i \in GetIdx(trace) : i > 1 /\ trace[i - 1] = SleepEv(delay)

C6_Witness ==
  /\ impl = "rpmgf" /\ NumGets(trace) >= 2 /\ pc = "done"

(***************************************************************************)
(* C7: in AMPScraper._make_request (default arguments) the backoff wait    *)
(* before the next attempt is (attempts already made) * unit and never     *)
(* smaller than an earlier wait of the same call.                          *)
(***************************************************************************)
C7_BackoffGrows ==
  (impl = "acta" /\ retry_count = DefaultRetryCount) =>
    \A i \in DOMAIN trace :
      IsSleep(trace[i]) =>
        /\ trace[i].secs = GetsBefore(trace, i) * BackoffUnit
        /\ \A j \in DOMAIN trace :
             (j < i /\ IsSleep(trace[j])) => trace[j].secs <= trace[i].secs

(***************************************************************************)
(* Vocabulary of the claims about the discovery of the listing pages.      *)
(***************************************************************************)
\* n is the least integer that is at least a / b, for a page size b >= 1
IsCeilOf(n, a, b) == b >= 1 /\ n * b >= a /\ (n - 1) * b < a
\* the same for any b # 0
IsCeilOfRatio(n, a, b) ==
  \/ b >= 1 /\ n * b >= a /\ (n - 1) * b < a
  \/ b <= -1 /\ n * b <= a /\ (n - 1) * b > a
ShownSize == shown.end - shown.start + 1
\* the navigation links of the family that are next-page controls
NextLabels == {"Next", "SEGUINTE"}
\* the page's text starts with the pagination line, and a blank follows it
OnlyPaginationLine ==
  /\ Len(page) >= 2
  /\ page[1].s = ShowText(shown)
  /\ page[2] = TextNode(<<" ">>)
\* _detect_pagination has run in get_magazine_links
Detected == impl = "rpmgf" /\ pstage \in {"walk", "returned"}

C9_ArchivePagesCeil ==
  (impl = "acta" /\ pstage = "returned" /\ shown.present
     /\ shown.end >= shown.start /\ OnlyPaginationLine)
    => IsCeilOf(Len(archive_pages), shown.total, ShownSize)

(***************************************************************************)
(* C10: in RPMGFScraper.get_magazine_links a fetched first listing page    *)
(* with neither an 'X-Y of Z' line nor a next-page link gives a page count *)
(* of 1: the walk requests exactly listing page 1 and the call returns.    *)
(***************************************************************************)
C10_SinglePageWhenNoSignal ==
  (impl = "rpmgf" /\ ~shown.present /\ nav \notin NextLabels)
    => /\ Detected => (pagination_info = None /\ total_pages = 1)
       /\ pstage = "walk" => (page_num = 1 /\ walked = <<>>)
       /\ pstage = "returned"
            => (walked = <<1>> /\ requested = <<RPageUrl(1), RPageUrl(1)>>)
       /\ pstage \in {"first", "detect", "walk", "returned", "no_first_page"}

C10_Witness ==
  /\ impl = "rpmgf" /\ ~shown.present /\ nav = "Home"
  /\ pstage = "returned" /\ walked = <<1>> /\ total_pages = 1

(***************************************************************************)
(* C11: in AMPScraper.get_archive_pages a fetched first listing page with  *)
(* neither an 'X-Y of Z' line nor a next-page link yields exactly one      *)
(* listing-page URL, whatever other text the page contains.                *)
(***************************************************************************)
C11_OneArchivePageWhenNoSignal ==
  (impl = "acta" /\ pstage = "returned" /\ ~shown.present
     /\ nav \notin NextLabels)
    => archive_pages = <<APageUrl(1)>>

(***************************************************************************)
(* Vocabulary of the claims about the crawl.                               *)
(***************************************************************************)
Occurrences(q, x) == Cardinality({i \in DOMAIN q : q[i] = x})
IsIssueUrl(u) == Len(u) = 3 /\ u[2] = IssuePath
IsArticleUrl(u) == Len(u) = 3 /\ u[2] = ArticlePath
TasksFor(u) == {i \in DOMAIN tasks : tasks[i].url = u}
\* scrape_all_articles of AMPScraper has submitted its container tasks
AmpSubmitted == impl = "acta" /\ cstage \in {"collect", "returned", "raised"}
AmpOver == impl = "acta" /\ cstage \in {"returned", "raised"}
\* requests of AMPScraper that are in flight: pool threads and coordinator
AmpInFlight == Cardinality(Running) + (IF leaf_busy THEN 1 ELSE 0)

C14_LeafFetchedOnce ==
  impl = "acta" =>
    \A u \in Range(requested) :
      IsArticleUrl(u) =>
        /\ Occurrences(requested, u) <= 1
        /\ Cardinality({i \in DOMAIN all_articles :
                          all_articles[i].url_artigo = u}) <= 1

(***************************************************************************)
(* C15: in AMPScraper.scrape_all_articles no article fetch is under way    *)
(* while an issue fetch task is still pending or in flight.                *)
(***************************************************************************)
C15_NoLeafBeforeContainersDone ==
  (impl = "acta" /\ leaf_busy) => \A i \in DOMAIN tasks : tasks[i].st = "done"

(***************************************************************************)
(* C17: in AMPScraper.scrape_all_articles the number of requests in flight *)
(* never exceeds max_workers.                                              *)
(***************************************************************************)
C17_InFlightAtMostMaxWorkers ==
  (impl = "acta" /\ cstage = "collect") => AmpInFlight <= max_workers

(***************************************************************************)
(* C20: when AMPScraper.scrape_all_articles discovers no issue URL, the    *)
(* call ends by returning an empty list of records; it does not raise.     *)
(***************************************************************************)
C20_NoIssuesReturnsEmpty ==
  (AmpOver /\ all_issue_links = <<>>)
    => (cstage = "returned" /\ all_articles = <<>>)

(***************************************************************************)
(* Vocabulary of the claims about the crawl of RPMGFScraper.               *)
(***************************************************************************)
\* the phase a requested URL belongs to: listing 1, container 2, leaf 3
PhaseRank(u) ==
  CASE u[1] = "archive" -> 1
    [] u[1] = "issue" -> 2
    [] OTHER -> 3
RequestsOfRank(r) == {i \in DOMAIN requested : PhaseRank(requested[i]) = r}
RECURSIVE SumLen(_, _)
\* the number of records in the results of the tasks of S
SumLen(S, t) ==
  IF S = {} THEN 0
  ELSE LET i == CHOOSE j \in S : TRUE
       IN  Len(t[i].res) + SumLen(S \ {i}, t)
TasksDone == {i \in DOMAIN tasks : tasks[i].st = "done"}

(***************************************************************************)
(* C12: over one run of RPMGFScraper.scrape_all_articles                   *)
(* (rpmgf_improved.py) no URL is requested twice: the first listing page,  *)
(* every magazine URL and every article URL is handed to _make_request at  *)
(* most once.                                                              *)
(***************************************************************************)
C12_NoUrlRequestedTwice ==
  impl = "rpmgf" =>
    \A u \in Range(requested) : Occurrences(requested, u) <= 1

(***************************************************************************)
(* C16: in RPMGFScraper.scrape_all_articles (both versions) the phases are *)
(* strictly sequential: every listing-page request precedes every          *)
(* magazine request, which precede every article request; the listing walk *)
(* is over when the first magazine is requested, and the magazine loop is  *)
(* over when the first article task is submitted.                          *)
(***************************************************************************)
C16_PhasesSequential ==
  impl \in RpmgfVersions =>
    /\ \A i, j \in DOMAIN requested :
         i < j => PhaseRank(requested[i]) <= PhaseRank(requested[j])
    /\ RequestsOfRank(2) # {}
         => /\ pstage = "returned"
            /\ impl = "rpmgf" => page_num > total_pages
    /\ tasks # <<>>
         => /\ pos > Len(issue_links)
            /\ Cardinality(RequestsOfRank(2)) = Len(issue_links)

C16_Witness ==
  /\ impl = "rpmgf" /\ cstage = "returned"
  /\ walked = <<1, 2>>
  /\ Cardinality(RequestsOfRank(2)) >= 2
  /\ Cardinality(RequestsOfRank(3)) >= 2
  /\ \A i \in DOMAIN tasks : tasks[i].st # "pending"

C19_RaisingTaskStaysLocal ==
  (impl = "optimized" /\ \E i \in DOMAIN tasks : tasks[i].st = "raised")
    => /\ cstage # "raised"
       /\ cstage = "written"
            => \A i \in DOMAIN tasks : tasks[i].st \in {"done", "raised"}

(***************************************************************************)
(* C29: in RPMGFScraper._detect_pagination, a first listing page without   *)
(* an 'X-Y of Z' line but with a next-page link gives the fixed estimate   *)
(* of 4 pages, and get_magazine_links walks exactly the listing pages 1,   *)
(* 2, 3, 4, whichever of them fail.                                        *)
(***************************************************************************)
C29_NextLinkGivesFourPages ==
  (impl = "rpmgf" /\ ~shown.present /\ nav \in NextLabels)
    => /\ Detected
            => /\ pagination_info # None
               /\ pagination_info.total_pages = 4
               /\ total_pages = 4
       /\ pstage = "walk" => (page_num <= 4 /\ Len(walked) = page_num - 1)
       /\ pstage = "returned"
            => /\ walked = <<1, 2, 3, 4>>
               /\ requested = <<RPageUrl(1), RPageUrl(1), RPageUrl(2),
                                RPageUrl(3), RPageUrl(4)>>
       /\ pstage \in {"first", "detect", "walk", "returned", "no_first_page"}

C29_Witness ==
  /\ impl = "rpmgf" /\ ~shown.present /\ nav = "SEGUINTE"
  /\ pstage = "returned" /\ walked = <<1, 2, 3, 4>> /\ pages_failed = 1

(***************************************************************************)
(* C30: in RPMGFScraper.get_magazine_links, once the first listing page    *)
(* was fetched, the page count is at least 1 and at least one listing page *)
(* is walked, for every 'start-end of total' the page shows (total = 0 and *)
(* end < start included).                                                  *)
(***************************************************************************)
C30_AtLeastOnePageWalked ==
  (impl = "rpmgf" /\ pstage = "returned")
    => (total_pages >= 1 /\ Len(walked) >= 1)

(***************************************************************************)
(* C21: in AMPScraper.scrape_all_articles every record of the list comes   *)
(* from an article whose fetch gave a response; an article whose           *)
(* _make_request returned None (404, or all attempts failed) contributes   *)
(* no record.                                                              *)
(***************************************************************************)
C21_RecordsOnlyFromFetchedLeaves ==
  impl = "acta" =>
    \A i \in DOMAIN all_articles : all_articles[i].fetch = "response"

(***************************************************************************)
(* C22: when the extraction raises on an article that was fetched, that    *)
(* article contributes no record (and the run goes on with the others);    *)
(* here for AMPScraper.extract_article_data.                               *)
(***************************************************************************)
C22_ExtractionErrorGivesNoRecord ==
  impl = "acta" =>
    \A i \in DOMAIN all_articles : all_articles[i].metadata # "partial"

(***************************************************************************)
(* C28: in AMPScraper.scrape_all_articles, for max_issues = n (not None)   *)
(* at most n issue pages are requested, and the issues worked on are the   *)
(* first n of the sorted, de-duplicated list of issue URLs.                *)
(***************************************************************************)
C28_AtMostMaxIssuesFetched ==
  (AmpSubmitted /\ max_issues.given)
    => /\ Cardinality({i \in DOMAIN requested : IsIssueUrl(requested[i])})
            <= max_issues.n
       /\ Len(issue_links) <= max_issues.n
       /\ \A i \in DOMAIN issue_links : issue_links[i] = all_issue_links[i]

(***************************************************************************)
(* The end of an RPMGF run in main: what save_to_excel and save_to_csv     *)
(* were given, and the tasks a KeyboardInterrupt found unstarted.          *)
(***************************************************************************)
\* the `articles` handed to save_to_excel / save_to_csv; nothing when main
\* did not come to the two calls
Serialized == IF cstage = "saved" THEN all_articles ELSE <<>>

(***************************************************************************)
(* C23: when a KeyboardInterrupt arrives during the leaf phase of          *)
(* RPMGFScraper (rpmgf_improved.py), the records of the leaf tasks that    *)
(* were already taken into the list are still handed to save_to_excel and  *)
(* save_to_csv when main ends.                                             *)
(***************************************************************************)
C23_PartialResultSaved ==
  (impl = "rpmgf" /\ cstage = "main_interrupted")
    => \A i \in consumed : \A k \in DOMAIN tasks[i].res :
         Occurrences(Serialized, tasks[i].res[k]) >= 1

(***************************************************************************)
(* C24: once the KeyboardInterrupt is observed in the leaf phase of        *)
(* RPMGFScraper.scrape_all_articles, no task that was still queued begins  *)
(* its fetch; only the tasks already running go on to their end.           *)
(***************************************************************************)
C24_NoStartAfterInterrupt ==
  impl = "rpmgf" => \A i \in DOMAIN tasks : ~tasks[i].late

(***************************************************************************)
(* C25: every run of RPMGFScraper.scrape_all_articles (rpmgf_improved.py)  *)
(* over the finite site ends under fair scheduling; a running leaf task    *)
(* has made fewer than `retries` attempts, so it makes at most `retries`;  *)
(* when the call has returned every submitted leaf task has ended and was  *)
(* taken once by the collection loop, processed_count being the number of  *)
(* submitted article URLs; no task stays running for ever.                 *)
(***************************************************************************)
RunOver == cstage \in {"saved", "no_articles", "main_interrupted"}
C25_RunTerminates ==
  /\ <>[](impl = "rpmgf" => RunOver)
  /\ [](impl = "rpmgf"
          => /\ \A i \in Running : tasks[i].att < DefaultRetries
             /\ cstage \in {"returned", "saved", "no_articles"}
                  => /\ \A i \in DOMAIN tasks :
                          tasks[i].st \in {"done", "raised"}
                     /\ consumed = DOMAIN tasks
                     /\ processed_count = Len(article_links)
             /\ RunOver => Running = {})
C25_Witness ==
  /\ impl = "rpmgf" /\ cstage = "saved"
  /\ max_workers = 2
  /\ Len(tasks) = 4
  /\ processed_count = Len(tasks)
  /\ \E i \in DOMAIN tasks : tasks[i].st = "raised"
  /\ \E i \in TasksDone : tasks[i].res = <<>>

(***************************************************************************)
(* C26: end to end in RPMGFScraper (rpmgf_improved.py): the listing page   *)
(* prints '1-2 of 2' and lists one magazine, the magazine page links two   *)
(* articles, each article page names one author, and every fetch gives its *)
(* page.  Then one listing page is counted and walked, two tasks are       *)
(* submitted, none fails, and the run returns exactly the two records,     *)
(* which main saves.                                                       *)
(***************************************************************************)
TwoLeafSite ==
  /\ shown = [present |-> TRUE, start |-> 1, end |-> 2, total |-> 2]
  /\ page = RpmFirstPage(shown, << ANode(<<"V", "e">>, "title", IssueHref(5)) >>)
AllFetchesSucceeded ==
  /\ pstage = "returned"
  /\ pages_failed = 0
  /\ skipped = {}
  /\ \A i \in DOMAIN tasks :
       tasks[i].st = "done" /\ tasks[i].res = RecordsOf(tasks[i].url)
C26_TwoLeavesTwoRecords ==
  (impl = "rpmgf" /\ TwoLeafSite /\ AllFetchesSucceeded)
    => /\ total_pages = 1
       /\ walked = <<1>>
       /\ cstage \notin {"no_articles", "raised"}
       /\ cstage \in {"returned", "saved"}
            => /\ Len(issue_links) = 1
               /\ Len(tasks) = 2
               /\ processed_count = 2
               /\ Len(all_articles) = 2
               /\ Range(all_articles) =
                    { [url |-> ArticleHref(1), autor |-> "Ana"],
                      [url |-> ArticleHref(4), autor |-> "Ivo"] }
C26_Witness ==
  /\ impl = "rpmgf" /\ TwoLeafSite /\ AllFetchesSucceeded
  /\ cstage = "saved"
  /\ Len(Serialized) = 2

(***************************************************************************)
(* C27: in RPMGFScraper.scrape_all_articles (both versions) with           *)
(* max_workers > 1 the list all_articles is changed only by the            *)
(* coordinating thread's loop, and no update is lost: whatever the order   *)
(* in which the tasks end and are taken, the list holds every record of    *)
(* the tasks taken so far, each as often as the tasks returned it, so the  *)
(* returned list is the multiset of the records of all the leaf tasks and  *)
(* its length the sum of their record counts.                              *)
(***************************************************************************)
RECURSIVE TimesReturned(_, _, _)
\* how often the tasks of S returned the record x
TimesReturned(S, t, x) ==
  IF S = {} THEN 0
  ELSE LET i == CHOOSE j \in S : TRUE
       IN  Occurrences(t[i].res, x) + TimesReturned(S \ {i}, t, x)
AllRecords == UNION {Range(tasks[i].res) : i \in DOMAIN tasks}
C27_NoUpdateLost ==
  /\ [](( impl \in RpmgfVersions /\ max_workers > 1 )
         => /\ Len(all_articles) = SumLen(consumed, tasks)
            /\ \A x \in AllRecords \cup Range(all_articles) :
                 Occurrences(all_articles, x) = TimesReturned(consumed, tasks, x)
            /\ cstage \in {"returned", "saved", "no_articles"}
                 => consumed = DOMAIN tasks)
  /\ [][ ( impl \in RpmgfVersions /\ all_articles' # all_articles )
           => \E i \in DOMAIN tasks : RTake(i) ]_vars
C27_Witness ==
  /\ impl = "rpmgf" /\ max_workers = 2 /\ cstage = "returned"
  /\ \E i, j \in DOMAIN tasks :
       /\ i < j
       /\ tasks[i].res # <<>> /\ tasks[j].res # <<>>
       /\ tasks[i].url # tasks[j].url
       /\ all_articles[1] = tasks[j].res[1]
  /\ \E i \in DOMAIN tasks : Len(tasks[i].res) = 2

(***************************************************************************)
(* C31: in RPMGFScraper (rpmgf_improved.py) every record of the list       *)
(* carries the URL of the article page it was extracted from; a task has   *)
(* records only when its fetch gave a response and the extraction went     *)
(* through; such a task on a page with k author elements has exactly k     *)
(* records, one per author, and with k = 0 it has none, like a task whose  *)
(* fetch failed; the list has, for every URL, as many records as the tasks *)
(* taken for that URL returned.                                            *)
(***************************************************************************)
AuthorCount(url) == Len(ArticleAuthors(url[3]))
RecordsWithUrl(u) ==
  Cardinality({n \in DOMAIN all_articles : all_articles[n].url = u})
C31_OneRecordPerAuthor ==
  /\ [](impl = "rpmgf"
          => /\ \A n \in DOMAIN all_articles :
                  \E i \in consumed :
                    /\ tasks[i].st = "done"
                    /\ tasks[i].url = all_articles[n].url
                    /\ all_articles[n] \in Range(tasks[i].res)
             /\ \A i \in DOMAIN tasks :
                  tasks[i].res # <<>>
                    => /\ tasks[i].st = "done"
                       /\ Len(tasks[i].res) = AuthorCount(tasks[i].url)
                       /\ \A k \in DOMAIN tasks[i].res :
                            /\ tasks[i].res[k].url = tasks[i].url
                            /\ tasks[i].res[k].autor
                                 = ArticleAuthors(tasks[i].url[3])[k]
             /\ \A i \in DOMAIN tasks :
                  RecordsWithUrl(tasks[i].url)
                    = SumLen(TasksFor(tasks[i].url) \cap consumed, tasks))
  /\ [][ impl = "rpmgf"
           => \A i \in DOMAIN tasks :
                (i \in Running /\ tasks'[i].st # "running")
                  => /\ tasks'[i].res # <<>> => RWorkerFinish(i, "ok")
                     /\ RWorkerFinish(i, "ok")
                          => Len(tasks'[i].res) = AuthorCount(tasks[i].url)
                     /\ RWorkerFinish(i, "fetch_failed")
                          => tasks'[i].res = <<>> ]_vars
C31_Witness ==
  /\ impl = "rpmgf" /\ cstage = "returned"
  /\ \E i, j \in consumed :
       /\ tasks[i].url = ArticleHref(2) /\ Len(tasks[i].res) = 2
       /\ tasks[j].url = ArticleHref(3) /\ tasks[j].st = "done"
       /\ tasks[j].res = <<>>
  /\ RecordsWithUrl(ArticleHref(2)) = 2
  /\ RecordsWithUrl(ArticleHref(3)) = 0

(***************************************************************************)
(* C32: in RPMGFScraper.get_magazine_links (rpmgf_improved.py) and         *)
(* AMPScraper.get_archive_pages (acta.py), when the request of the first   *)
(* listing page fails the discovery returns the empty list without any     *)
(* other listing request, and the run requests no magazine, issue or       *)
(* article page: the first listing URL stays the only request.             *)
(***************************************************************************)
FirstListingUrl == IF impl = "acta" THEN APageUrl(1) ELSE RPageUrl(1)
C32_FirstPageFailureStopsRun ==
  /\ [][ ((\E ok \in {FALSE} : MFirst(ok)) \/ (\E ok \in {FALSE} : AFirst(ok)))
           => pstage' = "no_first_page" ]_vars
  /\ []((impl \in {"rpmgf", "acta"} /\ pstage = "no_first_page")
          => /\ requested = <<FirstListingUrl>>
             /\ walked = <<>>
             /\ all_magazine_links = <<>> /\ archive_pages = <<>>
             /\ all_issue_links = <<>> /\ issue_links = <<>>
             /\ article_links = <<>> /\ todo = <<>>
             /\ tasks = <<>> /\ all_articles = <<>>
             /\ Serialized = <<>>)
C32_Witness ==
  /\ impl = "rpmgf" /\ pstage = "no_first_page"
  /\ cstage = "no_articles"
  /\ requested = <<RPageUrl(1)>>

=============================================================================
